---- MODULE Spec2Model ----
(***************************************************************************)
(* A model of packages/estorage/src/main.ts: the asset mirror              *)
(* (window.downloadAssets) over the remote store client and the LightningFS*)
(* promise API, and the SPA routing kill-switch (window.disableSpaRouting  *)
(* and window.restoreSpaRouting).                                          *)
(*                                                                         *)
(* An async function is a process whose pc names the operation it is       *)
(* awaiting.  One step is the completion of that operation followed by the *)
(* synchronous code up to the next await, which is exactly what the        *)
(* JavaScript event loop interleaves.                                      *)
(***************************************************************************)
EXTENDS Integers, Sequences, FiniteSets, TLC

\* ------------------------------------------------------------------ bounds
\* downloadAssets calls made one after another by one caller.
MaxRuns == 2

\* ------------------------------------------------------------- asset mirror
Procs == {1, 2}
\* The callers of the sequential specification.
SeqProcs == {1}

DBs == {"d1", "d2"}
Names == {"a", "b"}

\* DirEntry of estorageClient.ts: { type: "dir" | "file", name } (sha256 is
\* never read by main.ts).
DirEntry(t, n) == [type |-> t, name |-> n]

\* The remote listings of {db}/assets the model draws from.
ListingsOf(d) ==
    IF d = "d1"
    THEN { <<DirEntry("file", "a"), DirEntry("file", "b")>>,
           <<DirEntry("dir", "a"), DirEntry("file", "b")>> }
    ELSE { <<DirEntry("file", "a")>> }

\* The inputs of a downloadAssets call (dbs.map(x => x.name)).
Inputs == { <<"d1">>, <<"d1", "d2">>, <<"d2", "d1">> }

\* Local paths: /{db}, /{db}/assets, /{db}/assets/{name}.
DbPath(d) == <<d>>
AssetsPath(d) == <<d, "assets">>
AssetPath(d, n) == <<d, "assets", n>>
Paths == {DbPath(d) : d \in DBs} \cup {AssetsPath(d) : d \in DBs}
         \cup {AssetPath(d, n) : d \in DBs, n \in Names}

NoData == <<>>
OldData == <<"old">>
NoNode == [type |-> "none", data |-> NoData]
DirNode == [type |-> "dir", data |-> NoData]

\* Mutant: writeFile stores no bytes.
FileNodeWithoutData(bytes) == [type |-> "file", data |-> NoData]

FileNode(bytes) == [type |-> "file", data |-> bytes]

\* What GET /estorage/{db}/assets/{name} answers with status 200: the bytes
\* of a file, or the JSON listing when the path is a remote directory.
RemoteBytes(d, e) ==
    IF e.type = "file" THEN <<"bytes", d, e.name>> ELSE <<"json", d, e.name>>

Parent(path) == SubSeq(path, 1, Len(path) - 1)

\* LightningFS' lookup of a directory: every component is a directory.
RECURSIVE IsDir(_, _)
IsDir(f, path) ==
    IF path = <<>> THEN TRUE
    ELSE f[path].type = "dir" /\ IsDir(f, Parent(path))

\* pfs.stat(path): the node's type, or a rejection (ENOENT).
Stat(f, path) ==
    IF IsDir(f, Parent(path)) /\ f[path].type # "none"
    THEN f[path].type
    ELSE "ENOENT"

\* pfs.mkdir(path) succeeds iff the parent is a directory and nothing is at
\* path (EEXIST, ENOENT otherwise).
MkdirOk(f, path) == IsDir(f, Parent(path)) /\ f[path].type = "none"

\* pfs.writeFile(path, data) needs the parent directory (ENOENT otherwise):
\* it creates no directories.
WriteOk(f, path) == IsDir(f, Parent(path))

VARIABLES
    remote,     \* remote[d]: the listing of {d}/assets in the remote store
    fs0,        \* the local filesystem before the first call
    fs,         \* the local filesystem: path -> node
    proc,       \* proc[p]: the state of caller p's downloadAssets call
    tally,      \* calls made per caller, listings obtained per database,
                \* fetches requested per asset path
    netFault,   \* a remote request has failed
    ioFault     \* a writeFile has failed although its parent directory exists

syncVars == <<remote, fs0, fs, proc, tally, netFault, ioFault>>

\* The navigation guard's state.
VARIABLES
    bindings0,  \* the bindings before the first enable
    bindings,   \* history.pushState ... window.removeEventListener, now
    saved,      \* window["__routingKillSwitch__"]
    installed,  \* the listeners registered on the real target, in order
    epoch,      \* how many times enable has run past its first line
    calls,      \* listener calls made by the page
    last        \* the last operation, and the original operations it invoked

guardVars == <<bindings0, bindings, saved, installed, epoch, calls, last>>

\* What the guard's patched history methods have done to the page.
VARIABLES
    navLog,     \* the location assignments and reloads performed, in order
    timers      \* the setTimeout(() => w.location.reload(), 0) callbacks
                \* that have not run yet

histVars == <<navLog, timers>>

\* window.getNewRepos and window.uploadRepos.
VARIABLES
    store,      \* the remote store: its database names and the archives
                \* uploaded to it
    repo        \* the state of the getNewRepos or uploadRepos call

repoVars == <<store, repo>>

Event(op, d, n, res) == [op |-> op, db |-> d, name |-> n, res |-> res]

IdleProc ==
    [pc |-> "idle", dbs |-> <<>>, di |-> 0, assetFiles |-> <<>>, ai |-> 0,
     data |-> NoData, log |-> <<>>]

\* The local filesystems a call may find for database d.
FsChoices(d) ==
    LET base == [p \in {DbPath(d), AssetsPath(d)}
                       \cup {AssetPath(d, n) : n \in Names} |-> NoNode]
        withDb == [base EXCEPT ![DbPath(d)] = DirNode]
        withAssets == [withDb EXCEPT ![AssetsPath(d)] = DirNode]
    IN  IF d = "d1"
        THEN { base,
               [base EXCEPT ![DbPath(d)] = FileNode(OldData)],
               withDb,
               withAssets,
               [withAssets EXCEPT ![AssetPath(d, "a")] = FileNode(OldData)],
               [withAssets EXCEPT ![AssetPath(d, "a")] = DirNode] }
        ELSE { base, withAssets }

EmptyFs == [p \in Paths |-> NoNode]

\* Nothing has been called yet.
NoTally ==
    [calls |-> [p \in Procs |-> 0],
     listed |-> [d \in DBs |-> 0],
     fetched |-> [p \in Paths |-> 0]]

SyncInit ==
    /\ remote \in {r \in [DBs -> UNION {ListingsOf(d) : d \in DBs}] :
                      \A d \in DBs : r[d] \in ListingsOf(d)}
    /\ \E f1 \in FsChoices("d1"), f2 \in FsChoices("d2") :
          fs = [p \in Paths |-> IF p \in DOMAIN f1 THEN f1[p] ELSE f2[p]]
    /\ fs0 = fs
    /\ proc = [p \in Procs |-> IdleProc]
    /\ tally = NoTally
    /\ netFault = FALSE
    /\ ioFault = FALSE

\* for (const dbObj of dbs) { ... await listDBDir(db, "assets")
EnterDb(s, i) ==
    IF i > Len(s.dbs)
    THEN [s EXCEPT !.pc = "done", !.di = i]
    ELSE [s EXCEPT !.pc = "listWait", !.di = i, !.assetFiles = <<>>, !.ai = 0]

\* for (const assetFile of assetFiles) { ... await pfs.stat(...)
\* and after the loop: await printTree(pfs)
EnterAsset(s, k) ==
    IF k > Len(s.assetFiles)
    THEN [s EXCEPT !.pc = "printTree", !.ai = k]
    ELSE [s EXCEPT !.pc = "statAsset", !.ai = k]

Logged(s, ev) == [s EXCEPT !.log = Append(@, ev)]

CurDb(s) == s.dbs[s.di]
\* Mutant: the listing is walked from its end.
LastEntryFirst(s) == s.assetFiles[Len(s.assetFiles) + 1 - s.ai]

CurEntry(s) == s.assetFiles[s.ai]

\* Mutant: a failing fetch or write reaches the outer catch and ends the sync
\* of the database.
AssetFailurePropagates(s) == EnterDb(s, s.di + 1)

\* The inner catch of the asset loop: the failure is logged and the loop
\* goes on with the next entry.
AfterAssetFailure(s) == EnterAsset(s, s.ai + 1)

\* Mutant: a failing listing is not caught and rejects the call.
ListFailureRejects(s) == [s EXCEPT !.pc = "rejected"]

\* The outer catch: the failure is logged and the loop over dbs goes on.
AfterListFailure(s) == EnterDb(s, s.di + 1)

\* Mutant: only a node of the wrong type leads to mkdir, a rejected stat
\* does not.
DbNeedsMkdirOnWrongTypeOnly(r) == r = "file"

\* stats.type !== "dir" throws into the catch that calls mkdir.
DbNeedsMkdir(r) == r # "dir"

\* Mutant: the asset check compares with "dir", as the database check does.
AssetNeedsFetchUnlessDir(r) == r # "dir"

\* stats.type !== "file" throws into the catch that fetches and writes.
AssetNeedsFetch(r) == r # "file"

\* window.downloadAssets(dbs) is called.
Call(p, input) ==
    /\ proc[p].pc \in {"idle", "done"}
    /\ tally.calls[p] < MaxRuns
    /\ tally' = [tally EXCEPT !.calls[p] = @ + 1]
    /\ proc' = [proc EXCEPT ![p] = EnterDb([IdleProc EXCEPT !.dbs = input], 1)]
    /\ UNCHANGED <<remote, fs0, fs, netFault, ioFault>>
    /\ UNCHANGED <<guardVars, histVars, repoVars>>

\* listDBDir resolves; new LightningFS(...); await pfs.stat(`/${db}`)
ListOk(p) ==
    LET s == proc[p] IN
    /\ s.pc = "listWait"
    /\ proc' = [proc EXCEPT ![p] =
                  [Logged(s, Event("list", CurDb(s), "", "ok"))
                      EXCEPT !.assetFiles = remote[CurDb(s)], !.pc = "statDb"]]
    /\ tally' = [tally EXCEPT !.listed[CurDb(s)] = @ + 1]
    /\ UNCHANGED <<remote, fs0, fs, netFault, ioFault>>
    /\ UNCHANGED <<guardVars, histVars, repoVars>>

\* listDBDir rejects (transport failure or a status that is not ok).
ListFail(p) ==
    LET s == proc[p] IN
    /\ s.pc = "listWait"
    /\ proc' = [proc EXCEPT ![p] =
                  AfterListFailure(Logged(s, Event("list", CurDb(s), "", "fail")))]
    /\ netFault' = TRUE
    /\ UNCHANGED <<remote, fs0, fs, tally, ioFault>>
    /\ UNCHANGED <<guardVars, histVars, repoVars>>

\* pfs.stat(`/${db}`) settles.
StatDb(p) ==
    LET s == proc[p]
        r == Stat(fs, DbPath(CurDb(s)))
        t == Logged(s, Event("stat", CurDb(s), "", r))
    IN
    /\ s.pc = "statDb"
    /\ proc' = [proc EXCEPT ![p] =
                  IF DbNeedsMkdir(r) THEN [t EXCEPT !.pc = "mkdir"]
                  ELSE EnterAsset(t, 1)]
    /\ UNCHANGED <<remote, fs0, fs, tally, netFault, ioFault>>
    /\ UNCHANGED <<guardVars, histVars, repoVars>>

\* What a successful pfs.mkdir(path) leaves.
MkdirNode(f, path) == [f EXCEPT ![path] = DirNode]

\* pfs.mkdir(`/${db}`) settles; a rejection is logged and the asset loop starts
\* all the same.
Mkdir(p) ==
    LET s == proc[p]
        path == DbPath(CurDb(s))
        ok == MkdirOk(fs, path)
    IN
    /\ s.pc = "mkdir"
    /\ fs' = IF ok THEN MkdirNode(fs, path) ELSE fs
    /\ proc' = [proc EXCEPT ![p] =
                  EnterAsset(Logged(s, Event("mkdir", CurDb(s), "",
                                             IF ok THEN "ok" ELSE "fail")), 1)]
    /\ UNCHANGED <<remote, fs0, tally, netFault, ioFault>>
    /\ UNCHANGED <<guardVars, histVars, repoVars>>

\* pfs.stat(`/${db}/assets/${assetFile.name}`) settles; when the path is no
\* file, fetchDBFileBytes is called.
StatAsset(p) ==
    LET s == proc[p]
        e == CurEntry(s)
        r == Stat(fs, AssetPath(CurDb(s), e.name))
        t == Logged(s, Event("stat", CurDb(s), e.name, r))
    IN
    /\ s.pc = "statAsset"
    /\ proc' = [proc EXCEPT ![p] =
                  IF AssetNeedsFetch(r) THEN [t EXCEPT !.pc = "fetchWait"]
                  ELSE EnterAsset(t, s.ai + 1)]
    /\ tally' = IF AssetNeedsFetch(r)
                THEN [tally EXCEPT !.fetched[AssetPath(CurDb(s), e.name)] = @ + 1]
                ELSE tally
    /\ UNCHANGED <<remote, fs0, fs, netFault, ioFault>>
    /\ UNCHANGED <<guardVars, histVars, repoVars>>

\* fetchDBFileBytes resolves; pfs.writeFile(path, data) is called.
FetchOk(p) ==
    LET s == proc[p]
        e == CurEntry(s)
    IN
    /\ s.pc = "fetchWait"
    /\ proc' = [proc EXCEPT ![p] =
                  [Logged(s, Event("fetch", CurDb(s), e.name, "ok"))
                      EXCEPT !.data = RemoteBytes(CurDb(s), e), !.pc = "write"]]
    /\ UNCHANGED <<remote, fs0, fs, tally, netFault, ioFault>>
    /\ UNCHANGED <<guardVars, histVars, repoVars>>

\* fetchDBFileBytes rejects.
FetchFail(p) ==
    LET s == proc[p]
        e == CurEntry(s)
    IN
    /\ s.pc = "fetchWait"
    /\ proc' = [proc EXCEPT ![p] =
                  AfterAssetFailure(Logged(s, Event("fetch", CurDb(s), e.name, "fail")))]
    /\ netFault' = TRUE
    /\ UNCHANGED <<remote, fs0, fs, tally, ioFault>>
    /\ UNCHANGED <<guardVars, histVars, repoVars>>

\* pfs.writeFile resolves: the path is a file holding data.
WriteDone(p) ==
    LET s == proc[p]
        e == CurEntry(s)
        path == AssetPath(CurDb(s), e.name)
    IN
    /\ s.pc = "write"
    /\ WriteOk(fs, path)
    /\ fs' = [fs EXCEPT ![path] = FileNode(s.data)]
    /\ proc' = [proc EXCEPT ![p] =
                  EnterAsset([Logged(s, Event("write", CurDb(s), e.name, "ok"))
                                 EXCEPT !.data = NoData], s.ai + 1)]
    /\ UNCHANGED <<remote, fs0, tally, netFault, ioFault>>
    /\ UNCHANGED <<guardVars, histVars, repoVars>>

\* pfs.writeFile rejects because the parent directory is missing (ENOENT).
WriteNoParent(p) ==
    LET s == proc[p]
        e == CurEntry(s)
        path == AssetPath(CurDb(s), e.name)
    IN
    /\ s.pc = "write"
    /\ ~WriteOk(fs, path)
    /\ proc' = [proc EXCEPT ![p] =
                  AfterAssetFailure([Logged(s, Event("write", CurDb(s), e.name, "fail"))
                                        EXCEPT !.data = NoData])]
    /\ UNCHANGED <<remote, fs0, fs, tally, netFault, ioFault>>
    /\ UNCHANGED <<guardVars, histVars, repoVars>>

\* pfs.writeFile rejects for a reason of the backing store (quota, a
\* failed IndexedDB transaction).
WriteFault(p) ==
    LET s == proc[p]
        e == CurEntry(s)
        path == AssetPath(CurDb(s), e.name)
    IN
    /\ s.pc = "write"
    /\ WriteOk(fs, path)
    /\ ioFault' = TRUE
    /\ proc' = [proc EXCEPT ![p] =
                  AfterAssetFailure([Logged(s, Event("write", CurDb(s), e.name, "fail"))
                                        EXCEPT !.data = NoData])]
    /\ UNCHANGED <<remote, fs0, fs, tally, netFault>>
    /\ UNCHANGED <<guardVars, histVars, repoVars>>

\* printTree(pfs) settles (it only reads); the loop over dbs goes on.
PrintTree(p) ==
    LET s == proc[p] IN
    /\ s.pc = "printTree"
    /\ proc' = [proc EXCEPT ![p] =
                  EnterDb(Logged(s, Event("tree", CurDb(s), "", "ok")), s.di + 1)]
    /\ UNCHANGED <<remote, fs0, fs, tally, netFault, ioFault>>
    /\ UNCHANGED <<guardVars, histVars, repoVars>>

SyncStep(p) ==
    \/ \E input \in Inputs : Call(p, input)
    \/ ListOk(p)
    \/ ListFail(p)
    \/ StatDb(p)
    \/ Mkdir(p)
    \/ StatAsset(p)
    \/ FetchOk(p)
    \/ FetchFail(p)
    \/ WriteDone(p)
    \/ WriteNoParent(p)
    \/ WriteFault(p)
    \/ PrintTree(p)

\* -------------------------------------------------------- navigation guard
\* Enable calls (each creates a new set of patch closures).
MaxEpochs == 2
\* Listener registration and removal calls made by the page.
MaxCalls == 3

HistoryMethods == {"pushState", "replaceState", "back", "forward", "go"}
WindowMethods == {"addEventListener", "removeEventListener"}
Methods == HistoryMethods \cup WindowMethods

\* Mutant: hashchange is not blocked.
BlockedPopstateOnly == {"popstate"}

\* saved.blockedEvents = new Set(["popstate", "hashchange"])
BlockedEvents == {"popstate", "hashchange"}

\* A function value: the browser's own, one the page bound before the guard
\* was first enabled, or the closure that enable number n assigned.
Fn(kind, m, n) == [kind |-> kind, of |-> m, n |-> n]
Undefined == Fn("undefined", "", 0)

\* A listener: a callback of the page, or a handler closure of enable n.
Listener(kind, n) == [kind |-> kind, n |-> n]
AppListeners == {Listener("app", 1), Listener("app", 2)}

\* A registration {type, listener, options}; options is the capture flag.
Reg(t, l, o) == [type |-> t, listener |-> l, options |-> o]
\* The registrations the page asks for.
AppRegs ==
    { Reg("popstate", Listener("app", 1), FALSE),
      Reg("popstate", Listener("app", 1), TRUE),
      Reg("popstate", Listener("app", 2), FALSE),
      Reg("hashchange", Listener("app", 1), FALSE),
      Reg("click", Listener("app", 1), FALSE),
      Reg("click", Listener("app", 2), FALSE) }
NoReg == Reg("", Listener("none", 0), FALSE)

\* What the page had bound before the guard was ever enabled.
OriginalBindings ==
    { [m \in Methods |-> Fn("native", m, 0)],
      [m \in Methods |->
          IF m \in {"pushState", "replaceState"} THEN Fn("app", m, 0)
          ELSE Fn("native", m, 0)] }

\* EventTarget.addEventListener: a registration with the same type, callback
\* and capture flag is not added again.
NativeAdd(inst, reg) ==
    IF \E i \in 1..Len(inst) : inst[i] = reg THEN inst ELSE Append(inst, reg)

\* EventTarget.removeEventListener.
NativeRemove(inst, reg) == SelectSeq(inst, LAMBDA r : r # reg)

RECURSIVE NativeAddAll(_, _)
NativeAddAll(inst, regs) ==
    IF regs = <<>> THEN inst
    ELSE NativeAddAll(NativeAdd(inst, Head(regs)), Tail(regs))

NativeCall(fn, op, reg) == [fn |-> fn, op |-> op, reg |-> reg]
RegCalls(fn, regs) == [i \in 1..Len(regs) |-> NativeCall(fn, "add", regs[i])]

Last(op, via, reg, cs) == [op |-> op, via |-> via, reg |-> reg, calls |-> cs]

GuardInit ==
    /\ bindings0 \in OriginalBindings
    /\ bindings = bindings0
    /\ saved = [exists |-> FALSE, enabled |-> FALSE,
                orig |-> [m \in Methods |-> Undefined],
                listeners |-> <<>>,
                hashchange |-> Listener("none", 0),
                popstate |-> Listener("none", 0)]
    /\ installed = <<>>
    /\ epoch = 0
    /\ calls = 0
    /\ last = Last("none", Undefined, NoReg, <<>>)

\* window[KEY]?.enabled
GuardEnabled == saved.exists /\ saved.enabled

\* Mutant: enable does not look at the enabled flag.
EnableNeverReturnsEarly == FALSE

\* if (window[KEY]?.enabled) return;
EnableReturnsEarly == GuardEnabled

\* Mutant: disable does not look at the enabled flag.
RestoreNeverReturnsEarly == FALSE

\* if (!saved?.enabled) return;
RestoreReturnsEarly == ~GuardEnabled

\* saved.listeners = saved.listeners || []
KeptListeners == saved.listeners

\* The kill-switch handlers of enable n, registered with capture = true.
HashHandler(n) == Reg("hashchange", Listener("onHashAttempt", n), TRUE)

\* Mutant: the popstate handler is registered without capture.
PopHandlerBubbling(n) == Reg("popstate", Listener("onPopState", n), FALSE)

PopHandler(n) == Reg("popstate", Listener("onPopState", n), TRUE)

\* window.disableSpaRouting()
Enable ==
    /\ EnableReturnsEarly \/ epoch < MaxEpochs
    /\ IF EnableReturnsEarly
       THEN /\ last' = Last("enable", Undefined, NoReg, <<>>)
            /\ UNCHANGED <<bindings, saved, installed, epoch>>
       ELSE LET n == epoch + 1
                add == bindings["addEventListener"]
            IN  /\ epoch' = n
                /\ saved' = [exists |-> TRUE, enabled |-> TRUE,
                             orig |-> bindings,
                             listeners |-> KeptListeners,
                             hashchange |-> HashHandler(n).listener,
                             popstate |-> PopHandler(n).listener]
                /\ bindings' = [m \in Methods |-> Fn("patch", m, n)]
                /\ installed' = IF add.kind = "native"
                                THEN NativeAddAll(installed, <<HashHandler(n), PopHandler(n)>>)
                                ELSE installed
                /\ last' = Last("enable", Undefined, NoReg,
                                RegCalls(add, <<HashHandler(n), PopHandler(n)>>))
    /\ UNCHANGED <<bindings0, calls>>
    /\ UNCHANGED <<syncVars, histVars, repoVars>>

\* Mutant: the queue is not cleared after the replay.
ListenersKeptAfterReplay == saved.listeners

\* saved.listeners = [] after the replay loop.
ListenersAfterReplay == <<>>

\* window.restoreSpaRouting()
Restore ==
    /\ IF RestoreReturnsEarly
       THEN /\ last' = Last("disable", Undefined, NoReg, <<>>)
            /\ UNCHANGED <<bindings, saved, installed>>
       ELSE LET add == saved.orig["addEventListener"]
                rem == saved.orig["removeEventListener"]
                hh == Reg("hashchange", saved.hashchange, TRUE)
                ph == Reg("popstate", saved.popstate, TRUE)
                removed == IF rem.kind = "native"
                           THEN NativeRemove(NativeRemove(installed, hh), ph)
                           ELSE installed
            IN  /\ bindings' = saved.orig
                /\ installed' = IF add.kind = "native"
                                THEN NativeAddAll(removed, saved.listeners)
                                ELSE removed
                /\ saved' = [saved EXCEPT !.listeners = ListenersAfterReplay,
                                          !.enabled = FALSE]
                /\ last' = Last("disable", Undefined, NoReg,
                                <<NativeCall(rem, "remove", hh),
                                  NativeCall(rem, "remove", ph)>>
                                \o RegCalls(add, saved.listeners))
    /\ UNCHANGED <<bindings0, epoch, calls>>
    /\ UNCHANGED <<syncVars, histVars, repoVars>>

\* The body of a patched addEventListener: every enable's closure reads the
\* one saved object.
PatchedAdd(reg, via, name) ==
    IF reg.type \in BlockedEvents
    THEN /\ saved' = [saved EXCEPT !.listeners = Append(@, reg)]
         /\ last' = Last(name, via, reg, <<>>)
         /\ UNCHANGED installed
    ELSE LET add == saved.orig["addEventListener"] IN
         /\ installed' = IF add.kind = "native" THEN NativeAdd(installed, reg)
                         ELSE installed
         /\ last' = Last(name, via, reg, <<NativeCall(add, "add", reg)>>)
         /\ UNCHANGED saved

\* Mutant: the filter compares the type only.
FilteredByTypeOnly(reg) ==
    SelectSeq(saved.listeners, LAMBDA x : x.type # reg.type)

\* The listeners a patched removeEventListener(type, listener) leaves queued.
FilteredListeners(reg) ==
    SelectSeq(saved.listeners,
              LAMBDA x : ~(x.type = reg.type /\ x.listener = reg.listener))

\* The body of a patched removeEventListener.
PatchedRemove(reg, via, name) ==
    IF reg.type \in BlockedEvents
    THEN /\ saved' = [saved EXCEPT !.listeners = FilteredListeners(reg)]
         /\ last' = Last(name, via, reg, <<>>)
         /\ UNCHANGED installed
    ELSE LET rem == saved.orig["removeEventListener"] IN
         /\ installed' = IF rem.kind = "native" THEN NativeRemove(installed, reg)
                         ELSE installed
         /\ last' = Last(name, via, reg, <<NativeCall(rem, "remove", reg)>>)
         /\ UNCHANGED saved

\* The page calls window.addEventListener(type, listener, options).
AddListener(reg) ==
    LET f == bindings["addEventListener"] IN
    /\ calls < MaxCalls
    /\ calls' = calls + 1
    /\ IF f.kind = "patch"
       THEN PatchedAdd(reg, f, "add")
       ELSE /\ installed' = NativeAdd(installed, reg)
            /\ last' = Last("add", f, reg, <<NativeCall(f, "add", reg)>>)
            /\ UNCHANGED saved
    /\ UNCHANGED <<bindings0, bindings, epoch>>
    /\ UNCHANGED <<syncVars, histVars, repoVars>>

\* The page calls window.removeEventListener(type, listener, options).
RemoveListener(reg) ==
    LET f == bindings["removeEventListener"] IN
    /\ calls < MaxCalls
    /\ calls' = calls + 1
    /\ IF f.kind = "patch"
       THEN PatchedRemove(reg, f, "remove")
       ELSE /\ installed' = NativeRemove(installed, reg)
            /\ last' = Last("remove", f, reg, <<NativeCall(f, "remove", reg)>>)
            /\ UNCHANGED saved
    /\ UNCHANGED <<bindings0, bindings, epoch>>
    /\ UNCHANGED <<syncVars, histVars, repoVars>>

\* The page calls a patched addEventListener it read from window while the
\* guard was enabled, after the guard has been disabled.
StaleAddListener(reg) ==
    /\ calls < MaxCalls
    /\ epoch >= 1
    /\ ~GuardEnabled
    /\ calls' = calls + 1
    /\ PatchedAdd(reg, Fn("patch", "addEventListener", epoch), "staleAdd")
    /\ UNCHANGED <<bindings0, bindings, epoch>>
    /\ UNCHANGED <<syncVars, histVars, repoVars>>

GuardStep ==
    \/ Enable
    \/ Restore
    \/ \E reg \in AppRegs : AddListener(reg)
    \/ \E reg \in AppRegs : RemoveListener(reg)
    \/ \E reg \in AppRegs : StaleAddListener(reg)

\* ------------------------------------------------- patched history methods
\* Effects (location assignments, reloads) the page's history calls may have.
MaxNavs == 3

\* A JavaScript value passed as the url argument: str is what String(url)
\* returns when it returns, coerces says whether it returns or throws, and
\* navigable says whether assigning str to location.href is accepted.
JsValue(kind, str, coerces, navigable) ==
    [kind |-> kind, str |-> str, coerces |-> coerces, navigable |-> navigable]
JsUndefined == JsValue("undefined", "undefined", TRUE, TRUE)
JsNull == JsValue("null", "null", TRUE, TRUE)
Urls ==
    { JsUndefined,
      JsNull,
      JsValue("string", "https://host/page", TRUE, TRUE),
      JsValue("string", "", TRUE, TRUE),
      JsValue("string", "http://[", TRUE, FALSE),
      JsValue("object", "https://host/obj", TRUE, TRUE),
      JsValue("object", "", FALSE, TRUE) }
Deltas == {-1, 2}

NavHref(t) == [kind |-> "href", target |-> t, by |-> "hardNavigate"]
NavReload(by) == [kind |-> "reload", target |-> "", by |-> by]

\* Mutant: the catch of hardNavigate swallows the error.
CatchSwallows == <<>>

\* catch { window.location.reload(); }
CatchReloads == <<NavReload("hardNavigate")>>

\* hardNavigate(url): the navigation effects of one call.
HardNavigate(url) ==
    IF url.kind \notin {"undefined", "null"}
    THEN IF ~url.coerces THEN CatchReloads
         ELSE LET target == url.str IN
              IF target # ""
              THEN IF url.navigable THEN <<NavHref(target)>> ELSE CatchReloads
              ELSE <<NavReload("hardNavigate")>>
    ELSE <<NavReload("hardNavigate")>>

\* The arguments of a history call, and a call of an original history method.
HistArg(url, delta) == [url |-> url, delta |-> delta]
HistCall(fn, m, arg) == [fn |-> fn, op |-> m, arg |-> arg]
HistLast(op, via, arg, cs) ==
    [op |-> op, via |-> via, reg |-> NoReg, calls |-> cs, arg |-> arg]

HistInit ==
    /\ navLog = <<>>
    /\ timers = 0

\* The page calls history.pushState(state, title, url) or
\* history.replaceState(state, title, url).
PushState(m, url) ==
    LET f == bindings[m]
        arg == HistArg(url, 0)
    IN  /\ IF f.kind = "patch"
           THEN /\ Len(navLog) + timers < MaxNavs
                /\ navLog' = navLog \o HardNavigate(url)
                /\ last' = HistLast(m, f, arg, <<>>)
           ELSE /\ last' = HistLast(m, f, arg, <<HistCall(f, m, arg)>>)
                /\ UNCHANGED navLog
        /\ UNCHANGED <<bindings0, bindings, saved, installed, epoch, calls,
                       timers>>
        /\ UNCHANGED <<syncVars, repoVars>>

\* Mutant: the patched back, forward and go reload at once.
ReloadDuringTraverse == [now |-> <<NavReload("timer")>>, later |-> 0]

\* setTimeout(() => w.location.reload(), 0) after the original call.
ReloadAfterTraverse == [now |-> <<>>, later |-> 1]

\* The page calls history.back(), history.forward() or history.go(delta).
Traverse(m, delta) ==
    LET f == bindings[m]
        arg == HistArg(JsUndefined, delta)
    IN  /\ IF f.kind = "patch"
           THEN /\ Len(navLog) + timers < MaxNavs
                /\ last' = HistLast(m, f, arg,
                                    <<HistCall(saved.orig[m], m, arg)>>)
                /\ navLog' = navLog \o ReloadAfterTraverse.now
                /\ timers' = timers + ReloadAfterTraverse.later
           ELSE /\ last' = HistLast(m, f, arg, <<HistCall(f, m, arg)>>)
                /\ UNCHANGED <<navLog, timers>>
        /\ UNCHANGED <<bindings0, bindings, saved, installed, epoch, calls>>
        /\ UNCHANGED <<syncVars, repoVars>>

\* The event loop runs one of the scheduled () => w.location.reload().
FireTimer ==
    /\ timers > 0
    /\ timers' = timers - 1
    /\ navLog' = Append(navLog, NavReload("timer"))
    /\ last' = HistLast("timer", Undefined, HistArg(JsUndefined, 0), <<>>)
    /\ UNCHANGED <<bindings0, bindings, saved, installed, epoch, calls>>
    /\ UNCHANGED <<syncVars, repoVars>>

HistoryStep ==
    \/ Enable
    \/ Restore
    \/ \E m \in {"pushState", "replaceState"}, url \in Urls : PushState(m, url)
    \/ \E m \in {"back", "forward"} : Traverse(m, 0)
    \/ \E delta \in Deltas : Traverse("go", delta)
    \/ FireTimer

\* ------------------------------------------------ getNewRepos, uploadRepos
\* Files handed to one uploadRepos call.
MaxFiles == 3

\* A file name is its sequence of characters.
File(name) == [name |-> name]
Files ==
    { File(<<"g", ".", "z", "i", "p">>),
      File(<<"h", ".", "Z", "i", "P">>),
      File(<<"n", ".", "z", "i">>) }
FileInputs == UNION {[1..n -> Files] : n \in 0..MaxFiles}

LowerCase(c) ==
    IF c = "Z" THEN "z" ELSE IF c = "I" THEN "i" ELSE IF c = "P" THEN "p" ELSE c

\* file.name.replace(/\.zip$/i, "")
StripZip(name) ==
    LET n == Len(name) IN
    IF n >= 4 /\ [k \in 1..4 |-> LowerCase(name[n - 4 + k])] = <<".", "z", "i", "p">>
    THEN SubSeq(name, 1, n - 4)
    ELSE name

\* What GET /estorage returns.
DbLists == { <<>>, <<"d1">>, <<"d1", "d2">>, <<"d2", "d1", "d3">> }

\* The bytes of {db}/db.sqlite in the remote store.
SqliteBytes(db) == <<"bytes", db, "db.sqlite">>

Request(op, arg, res) == [op |-> op, arg |-> arg, res |-> res]

IdleRepo ==
    [pc |-> "idle", op |-> "none", files |-> <<>>, dbs |-> <<>>, i |-> 0,
     arrs |-> <<>>, returned |-> FALSE, result |-> <<>>, log |-> <<>>]

\* No getNewRepos or uploadRepos call is made.
RepoIdle ==
    /\ store = [dbs |-> <<>>, uploaded |-> <<>>]
    /\ repo = IdleRepo

RepoInit ==
    /\ store \in [dbs : DbLists, uploaded : {<<>>}]
    /\ repo = IdleRepo

\* for (const file of files) { await uploadDBZip(name, file)
EnterFile(s, k) ==
    IF k > Len(s.files)
    THEN [s EXCEPT !.pc = "resolved", !.i = k, !.returned = TRUE]
    ELSE [s EXCEPT !.pc = "uploadWait", !.i = k,
                   !.log = Append(@, Request("upload",
                                             [db |-> StripZip(s.files[k].name),
                                              file |-> s.files[k]], "sent"))]

\* for (const db of dbs) { ... await fetchDBFileBytes(db, "db.sqlite")
\* and after the loop: return arrs
EnterRepo(s, k) ==
    IF k > Len(s.dbs)
    THEN [s EXCEPT !.pc = "resolved", !.i = k, !.returned = TRUE,
                   !.result = s.arrs]
    ELSE [s EXCEPT !.pc = "sqliteWait", !.i = k,
                   !.log = Append(@, Request("fetch", s.dbs[k], "sent"))]

Completed(s, res) ==
    [s EXCEPT !.log = Append(@, Request(s.log[Len(s.log)].op,
                                        s.log[Len(s.log)].arg, res))]

\* Mutant: a failed upload is skipped and the loop goes on.
UploadFailureSkips(s) == EnterFile(s, s.i + 1)

\* uploadRepos has no catch: the rejection of uploadDBZip rejects the call.
AfterUploadFailure(s) == [s EXCEPT !.pc = "rejected"]

\* Mutant: a failed fetch is skipped and the loop goes on.
SqliteFailureSkips(s) == EnterRepo(s, s.i + 1)

\* getNewRepos has no catch: the rejection of fetchDBFileBytes rejects the
\* call.
AfterSqliteFailure(s) == [s EXCEPT !.pc = "rejected"]

\* window.uploadRepos(files) is called.
UploadRepos(files) ==
    /\ repo.pc = "idle"
    /\ repo' = EnterFile([IdleRepo EXCEPT !.op = "upload", !.files = files], 1)
    /\ UNCHANGED store
    /\ UNCHANGED <<syncVars, guardVars, histVars>>

\* uploadDBZip resolves: the store holds the archive under the database name.
UploadOk ==
    /\ repo.pc = "uploadWait"
    /\ store' = [store EXCEPT !.uploaded =
                    Append(@, repo.log[Len(repo.log)].arg)]
    /\ repo' = EnterFile(Completed(repo, "ok"), repo.i + 1)
    /\ UNCHANGED <<syncVars, guardVars, histVars>>

\* uploadDBZip rejects: fetch failed or ensureOk threw.
UploadFail ==
    /\ repo.pc = "uploadWait"
    /\ repo' = AfterUploadFailure(Completed(repo, "fail"))
    /\ UNCHANGED store
    /\ UNCHANGED <<syncVars, guardVars, histVars>>

\* window.getNewRepos() is called: await listDBs()
GetNewRepos ==
    /\ repo.pc = "idle"
    /\ repo' = [IdleRepo EXCEPT !.op = "get", !.pc = "listDBsWait",
                                !.log = <<Request("listDBs", "", "sent")>>]
    /\ UNCHANGED store
    /\ UNCHANGED <<syncVars, guardVars, histVars>>

\* listDBs resolves with the database names.
ListDBsOk ==
    /\ repo.pc = "listDBsWait"
    /\ repo' = EnterRepo([Completed(repo, "ok") EXCEPT !.dbs = store.dbs], 1)
    /\ UNCHANGED store
    /\ UNCHANGED <<syncVars, guardVars, histVars>>

\* listDBs rejects.
ListDBsFail ==
    /\ repo.pc = "listDBsWait"
    /\ repo' = [Completed(repo, "fail") EXCEPT !.pc = "rejected"]
    /\ UNCHANGED store
    /\ UNCHANGED <<syncVars, guardVars, histVars>>

\* fetchDBFileBytes(db, "db.sqlite") resolves: arrs.push({ name, bytes })
SqliteOk ==
    /\ repo.pc = "sqliteWait"
    /\ LET db == repo.dbs[repo.i]
           s == [Completed(repo, "ok") EXCEPT
                    !.arrs = Append(@, [name |-> db, bytes |-> SqliteBytes(db)])]
       IN  repo' = EnterRepo(s, repo.i + 1)
    /\ UNCHANGED store
    /\ UNCHANGED <<syncVars, guardVars, histVars>>

\* fetchDBFileBytes(db, "db.sqlite") rejects.
SqliteFail ==
    /\ repo.pc = "sqliteWait"
    /\ repo' = AfterSqliteFailure(Completed(repo, "fail"))
    /\ UNCHANGED store
    /\ UNCHANGED <<syncVars, guardVars, histVars>>

RepoStep ==
    \/ \E files \in FileInputs : UploadRepos(files)
    \/ UploadOk
    \/ UploadFail
    \/ GetNewRepos
    \/ ListDBsOk
    \/ ListDBsFail
    \/ SqliteOk
    \/ SqliteFail

vars == <<remote, fs0, fs, proc, tally, netFault, ioFault,
          bindings0, bindings, saved, installed, epoch, calls, last,
          navLog, timers, store, repo>>

\* The asset mirror with the guard never touched.
Init ==
    /\ SyncInit
    /\ GuardInit
    /\ bindings0 = [m \in Methods |-> Fn("native", m, 0)]
    /\ HistInit
    /\ RepoIdle

Next == \E p \in SeqProcs : SyncStep(p)

\* One caller: its downloadAssets calls run one after another.
Spec == Init /\ [][Next]_vars

\* The guard with no asset sync running.
GuardSpecInit ==
    /\ GuardInit
    /\ remote = [d \in DBs |-> <<DirEntry("file", "a")>>]
    /\ fs = EmptyFs
    /\ fs0 = EmptyFs
    /\ proc = [p \in Procs |-> IdleProc]
    /\ tally = NoTally
    /\ netFault = FALSE
    /\ ioFault = FALSE
    /\ HistInit
    /\ RepoIdle

GuardNext == GuardStep

GuardSpec == GuardSpecInit /\ [][GuardNext]_vars

\* The patched history methods, with no listener calls and no asset sync.
HistoryNext == HistoryStep

HistorySpec == GuardSpecInit /\ [][HistoryNext]_vars

\* The event loop runs every callback that setTimeout has scheduled.
HistoryFairSpec == HistorySpec /\ WF_vars(FireTimer)

\* One getNewRepos or uploadRepos call, with the guard never touched.
RepoSpecInit ==
    /\ RepoInit
    /\ HistInit
    /\ GuardInit
    /\ bindings0 = [m \in Methods |-> Fn("native", m, 0)]
    /\ remote = [d \in DBs |-> <<DirEntry("file", "a")>>]
    /\ fs = EmptyFs
    /\ fs0 = EmptyFs
    /\ proc = [p \in Procs |-> IdleProc]
    /\ tally = NoTally
    /\ netFault = FALSE
    /\ ioFault = FALSE

RepoNext == RepoStep

RepoSpec == RepoSpecInit /\ [][RepoNext]_vars

\* Two callers whose downloadAssets calls for one database overlap.
ConcInputs == { <<"d1">> }

ConcStep(p) ==
    \/ \E input \in ConcInputs : Call(p, input)
    \/ ListOk(p)
    \/ ListFail(p)
    \/ StatDb(p)
    \/ Mkdir(p)
    \/ StatAsset(p)
    \/ FetchOk(p)
    \/ FetchFail(p)
    \/ WriteDone(p)
    \/ WriteNoParent(p)
    \/ WriteFault(p)
    \/ PrintTree(p)

ConcNext == \E p \in Procs : ConcStep(p)

\* Only d1 is synced: nothing of d2 is in the local filesystem.
ConcInit ==
    /\ Init
    /\ \A path \in Paths : path[1] = "d2" => fs[path] = NoNode

ConcSpec == ConcInit /\ [][ConcNext]_vars

\* ------------------------------------------------ properties: asset mirror
Range(q) == {q[i] : i \in 1..Len(q)}

\* How many events of the given operations a log holds for /{d}/assets/{n}.
CountOf(lg, ops, d, n) ==
    Len(SelectSeq(lg, LAMBDA e : e.op \in ops /\ e.db = d /\ e.name = n))

\* No remote request and no writeFile has failed so far.
NoFault == ~netFault /\ ~ioFault

\* Caller p has finished its second call, the second sync of d.
TwoRunsDone(p, d) ==
    /\ proc[p].pc = "done"
    /\ tally.calls[p] = 2
    /\ tally.listed[d] = 2
    /\ d \in Range(proc[p].dbs)

\* C1: two syncs of one database in sequence, from an empty local filesystem
\* and with no failing request, fetch every listed asset exactly once over
\* both tally, and the second run fetches nothing.
C1_OneFetchPerAssetOverTwoRuns ==
    \A p \in Procs, d \in DBs :
        (TwoRunsDone(p, d) /\ fs0 = EmptyFs /\ NoFault) =>
            /\ \A i \in 1..Len(remote[d]) :
                  tally.fetched[AssetPath(d, remote[d][i].name)] = 1
            /\ \A e \in Range(proc[p].log) : ~(e.op = "fetch" /\ e.db = d)

\* The stat of /{d}/assets/{n} in caller p's running call found a file.
SkippedInRun(p, d, n) == Event("stat", d, n, "file") \in Range(proc[p].log)

\* C2: an entry whose local path is a file when it is stat'ed is neither
\* fetched nor written by that sync, and the file keeps its content.
C2_ExistingFileSkipped ==
    /\ [](\A p \in Procs :
            LET lg == proc[p].log IN
            /\ \A i \in 1..Len(lg), j \in 1..Len(lg) :
                 (i < j /\ lg[i].op = "stat" /\ lg[i].res = "file") =>
                    ~(lg[j].op \in {"fetch", "write"} /\ lg[j].db = lg[i].db
                      /\ lg[j].name = lg[i].name)
            /\ proc[p].pc \in {"fetchWait", "write"} =>
                 ~SkippedInRun(p, CurDb(proc[p]), CurEntry(proc[p]).name))
    /\ [][\A p \in Procs, d \in DBs, n \in Names :
            SkippedInRun(p, d, n) => fs'[AssetPath(d, n)] = fs[AssetPath(d, n)]]_vars

\* A finished sync skipped /d1/assets/a, which still holds its old content,
\* and wrote the entry after it.
C2_Witness ==
    /\ proc[1].pc = "done"
    /\ SkippedInRun(1, "d1", "a")
    /\ fs[AssetPath("d1", "a")] = FileNode(OldData)
    /\ Event("write", "d1", "b", "ok") \in Range(proc[1].log)

\* C3: after a first sync from an empty local filesystem in which no request
\* failed, /{db} is a directory and every listed file entry is a local file
\* holding the fetched bytes.
C3_MirrorComplete ==
    \A p \in Procs, d \in DBs :
        (/\ proc[p].pc = "done"
         /\ tally.calls[p] = 1
         /\ d \in Range(proc[p].dbs)
         /\ fs0 = EmptyFs
         /\ NoFault) =>
            /\ fs[DbPath(d)].type = "dir"
            /\ \A i \in 1..Len(remote[d]) :
                  remote[d][i].type = "file" =>
                     fs[AssetPath(d, remote[d][i].name)]
                        = FileNode(RemoteBytes(d, remote[d][i]))

\* The events of the sync of the database caller p is in: those after the
\* last listing.
LastList(lg) ==
    IF \E i \in 1..Len(lg) : lg[i].op = "list"
    THEN CHOOSE i \in 1..Len(lg) :
            lg[i].op = "list" /\ \A j \in (i + 1)..Len(lg) : lg[j].op # "list"
    ELSE 0
CurSegment(s) == SubSeq(s.log, LastList(s.log) + 1, Len(s.log))

\* C4 as claimed: whenever a writeFile of an asset is pending, /{db} is a
\* directory.
C4_DbDirAtEveryWrite ==
    \A p \in Procs :
        proc[p].pc = "write" => fs[DbPath(CurDb(proc[p]))].type = "dir"

\* C4 as amended: whenever a writeFile of an asset is pending, the stat of
\* /{db} has settled in this sync, and /{db} is a directory unless the mkdir
\* that followed the stat was rejected.
C4_DbDirAtWriteUnlessMkdirFailed ==
    \A p \in Procs :
        proc[p].pc = "write" =>
            LET d == CurDb(proc[p])
                seg == Range(CurSegment(proc[p]))
            IN  /\ \E e \in seg : e.op = "stat" /\ e.db = d /\ e.name = ""
                /\ \/ fs[DbPath(d)].type = "dir"
                   \/ Event("mkdir", d, "", "fail") \in seg

\* A writeFile is pending after the mkdir of /{db} was rejected.
C4_Witness ==
    /\ proc[1].pc = "write"
    /\ Event("mkdir", CurDb(proc[1]), "", "fail") \in Range(CurSegment(proc[1]))
    /\ fs[DbPath(CurDb(proc[1]))].type # "dir"

\* The last index of the database sync that the listing at index i starts.
SegmentEnd(lg, i) ==
    IF \E j \in (i + 1)..Len(lg) : lg[j].op = "list"
    THEN (CHOOSE j \in (i + 1)..Len(lg) :
             lg[j].op = "list" /\ \A k \in (i + 1)..(j - 1) : lg[k].op # "list") - 1
    ELSE Len(lg)

\* The database sync that starts at index i is over.
SegmentOver(s, i) == SegmentEnd(s.log, i) < Len(s.log) \/ s.pc \in {"done", "rejected"}

\* The names stat'ed by the asset loop, in order.
StatNames(seg) ==
    LET st == SelectSeq(seg, LAMBDA e : e.op = "stat" /\ e.name # "")
    IN  [k \in 1..Len(st) |-> st[k].name]

\* C5: in every database sync that listed its assets and is over, each entry
\* of the listing was stat'ed in listing order, each entry found absent was
\* fetched, each fetched entry was written, whatever fetch or write failed
\* before it; the sync ran to its tree dump and the call did not reject.
C5_FailureSkipsOneEntryOnly ==
    \A p \in Procs :
        LET s == proc[p]
            lg == s.log
        IN  /\ s.pc # "rejected"
            /\ \A i \in 1..Len(lg) :
                 (lg[i].op = "list" /\ lg[i].res = "ok" /\ SegmentOver(s, i)) =>
                    LET seg == SubSeq(lg, i + 1, SegmentEnd(lg, i))
                        d == lg[i].db
                    IN  /\ StatNames(seg) = [k \in 1..Len(remote[d]) |-> remote[d][k].name]
                        /\ \A e \in Range(seg) :
                             /\ (e.op = "stat" /\ e.name # "" /\ e.res # "file")
                                   => CountOf(seg, {"fetch"}, d, e.name) = 1
                             /\ (e.op = "fetch" /\ e.res = "ok")
                                   => CountOf(seg, {"write"}, d, e.name) = 1
                        /\ seg[Len(seg)].op = "tree"

\* A finished call in which the fetch or the write of entry a failed and the
\* later entry b of the same listing was fetched and written.
C5_Witness ==
    /\ proc[1].pc = "done"
    /\ \E i, j \in 1..Len(proc[1].log) :
          /\ i < j
          /\ proc[1].log[i].op \in {"fetch", "write"}
          /\ proc[1].log[i].res = "fail"
          /\ proc[1].log[j] = Event("write", proc[1].log[i].db, "b", "ok")
          /\ proc[1].log[i].name = "a"

\* The databases whose listing was requested, in order.
ListedDbs(lg) ==
    LET ls == SelectSeq(lg, LAMBDA e : e.op = "list")
    IN  [k \in 1..Len(ls) |-> ls[k].db]

\* C6: a failed listing is followed by no filesystem operation and no fetch
\* for that database; the call does not reject; the listings are requested
\* in input order and a finished call has requested one for every input
\* database, those after the failing one included.
C6_ListFailureSkipsOneDatabaseOnly ==
    \A p \in Procs :
        LET s == proc[p]
            lg == s.log
        IN  /\ s.pc # "rejected"
            /\ \A i \in 1..Len(lg) :
                 (lg[i].op = "list" /\ lg[i].res = "fail") =>
                    IF i = Len(lg) THEN s.pc \in {"listWait", "done"}
                    ELSE lg[i + 1].op = "list"
            /\ Len(ListedDbs(lg)) <= Len(s.dbs)
            /\ ListedDbs(lg) = SubSeq(s.dbs, 1, Len(ListedDbs(lg)))
            /\ s.pc = "done" => ListedDbs(lg) = s.dbs
            /\ s.pc = "listWait" => Len(ListedDbs(lg)) = s.di - 1

\* A finished call whose first listing failed and whose second database was
\* synced: its asset was fetched and written.
C6_Witness ==
    /\ proc[1].pc = "done"
    /\ Len(proc[1].log) > 1
    /\ proc[1].log[1].op = "list"
    /\ proc[1].log[1].res = "fail"
    /\ \E e \in Range(proc[1].log) :
          e.op = "write" /\ e.res = "ok" /\ e.db # proc[1].log[1].db

\* --------------------------------------------- properties: navigation guard
\* How often a registration is on the real target.
InstalledCount(inst, reg) == Len(SelectSeq(inst, LAMBDA r : r = reg))

\* The calls of an original addEventListener among the original operations
\* an operation invoked.
AddCalls(cs) == SelectSeq(cs, LAMBDA c : c.op = "add")

\* C7: enable while the guard is enabled and disable while it is not change
\* nothing (bindings, saved record with its queue and handlers, real target,
\* epoch); while enabled, the patches in place and the saved originals are
\* those of one enable.
C7_GuardNoOps ==
    /\ [][/\ (last'.op = "enable" /\ GuardEnabled)
               => UNCHANGED <<bindings, saved, installed, epoch>>
          /\ (last'.op = "disable" /\ ~GuardEnabled)
               => UNCHANGED <<bindings, saved, installed, epoch>>]_vars
    /\ [](GuardEnabled =>
            /\ \A m \in Methods : bindings[m] = Fn("patch", m, epoch)
            /\ saved.orig = bindings0)

\* enable was just called on an enabled guard: it invoked no original
\* operation and the patches are still those of the first enable.
C7_Witness ==
    /\ last.op = "enable"
    /\ last.calls = <<>>
    /\ GuardEnabled
    /\ epoch = 1
    /\ Len(saved.listeners) = 1

\* C8: whenever the guard is not enabled, the five history operations and
\* the global addEventListener and removeEventListener are bound to what was
\* bound before the first enable; the saved record never holds a patch as an
\* original.
C8_GuardRoundTrip ==
    /\ ~GuardEnabled => bindings = bindings0
    /\ \A m \in Methods : saved.orig[m].kind # "patch"

\* The second enable/disable cycle has just ended on a page that had bound
\* its own pushState before the first enable.
C8_Witness ==
    /\ last.op = "disable"
    /\ last.calls # <<>>
    /\ ~GuardEnabled
    /\ epoch = 2
    /\ bindings0["pushState"].kind = "app"
    /\ bindings["pushState"].kind = "app"

\* C9: while the guard is enabled no step puts a popstate or hashchange
\* listener of the page on the real target; a registration for one of these
\* types made through the global addEventListener is appended to the queue
\* and invokes no original operation; a registration for another type is
\* passed unchanged to the original addEventListener and is not queued.
C9_BlockedRegistrationsQueued ==
    [][GuardEnabled =>
         /\ GuardEnabled' =>
              \A r \in Range(installed') :
                 (r.type \in {"popstate", "hashchange"} /\ r.listener.kind = "app")
                    => r \in Range(installed)
         /\ last'.op = "add" =>
              LET r == last'.reg IN
              IF r.type \in {"popstate", "hashchange"}
              THEN /\ installed' = installed
                   /\ saved'.listeners = Append(saved.listeners, r)
                   /\ last'.calls = <<>>
              ELSE /\ saved'.listeners = saved.listeners
                   /\ last'.calls = <<NativeCall(bindings0["addEventListener"], "add", r)>>
                   /\ installed' = NativeAdd(installed, r)]_vars

\* While enabled the page registered a popstate and then a hashchange
\* listener: both are queued in that order and neither is on the real target.
C9_Witness ==
    /\ GuardEnabled
    /\ last.op = "add"
    /\ saved.listeners = <<Reg("popstate", Listener("app", 1), FALSE),
                           Reg("hashchange", Listener("app", 1), FALSE)>>
    /\ \A r \in Range(installed) : r.listener.kind # "app"

\* C10: a disable of an enabled guard passes every queued registration, in
\* queue order and once each, to the original addEventListener, which it has
\* restored as the global one; afterwards each of them is on the real target
\* exactly once and the queue is empty.
C10_ReplayOnDisable ==
    [][(GuardEnabled /\ last'.op = "disable") =>
         /\ AddCalls(last'.calls)
               = [i \in 1..Len(saved.listeners) |->
                     NativeCall(bindings0["addEventListener"], "add", saved.listeners[i])]
         /\ bindings'["addEventListener"] = bindings0["addEventListener"]
         /\ \A r \in Range(saved.listeners) : InstalledCount(installed', r) = 1
         /\ saved'.listeners = <<>>
         /\ ~GuardEnabled']_vars

\* A disable has just replayed two queued registrations: both are on the
\* real target and the queue is empty.
C10_Witness ==
    /\ last.op = "disable"
    /\ ~GuardEnabled
    /\ Len(AddCalls(last.calls)) = 2
    /\ AddCalls(last.calls)[1].reg # AddCalls(last.calls)[2].reg
    /\ \A i \in 1..2 : InstalledCount(installed, AddCalls(last.calls)[i].reg) = 1
    /\ saved.listeners = <<>>

\* ------------------------------------ properties: patched history methods
\* The navigation effects a step has added to the log.
NewNavs == SubSeq(navLog', Len(navLog) + 1, Len(navLog'))

\* C11: while the guard is enabled, every call of history.pushState or
\* history.replaceState has exactly one navigation effect, the location set
\* to the string form of the target or a full reload, and invokes no original
\* operation: an undefined target reloads, a valid absolute URL string sets
\* the location to that string, and a target whose coercion or whose
\* assignment to the location throws reloads.
C11_HardNavigateNeverDoesNothing ==
    [][(GuardEnabled /\ last'.op \in {"pushState", "replaceState"}) =>
         LET url == last'.arg.url IN
         /\ SubSeq(navLog', 1, Len(navLog)) = navLog
         /\ Len(NewNavs) = 1
         /\ \/ url.coerces /\ NewNavs[1] = NavHref(url.str)
            \/ NewNavs[1] = NavReload("hardNavigate")
         /\ url.kind = "undefined" => NewNavs[1].kind = "reload"
         /\ (url.kind = "string" /\ url.navigable /\ url.str # "")
               => NewNavs[1] = NavHref(url.str)
         /\ (~url.coerces \/ ~url.navigable) => NewNavs[1].kind = "reload"
         /\ timers' = timers
         /\ last'.calls = <<>>]_vars

\* While enabled the page has made three pushState or replaceState calls, the
\* first with a URL string and the last a pushState with undefined: the
\* location was set once and the page was reloaded twice.
C11_Witness ==
    /\ GuardEnabled
    /\ last.op = "pushState"
    /\ last.arg.url.kind = "undefined"
    /\ navLog = <<NavHref("https://host/page"), NavReload("hardNavigate"),
                  NavReload("hardNavigate")>>

\* ----------------------------------- properties: getNewRepos, uploadRepos
\* The requests a call has sent, in the order it sent them.
Sent(lg) == SelectSeq(lg, LAMBDA e : e.res = "sent")

\* Every request but the first is sent right after the one before it has
\* resolved, and every completion answers the request sent just before it.
OneAtATime(lg) ==
    \A j \in 1..Len(lg) :
       IF lg[j].res = "sent"
       THEN j = 1 \/ lg[j - 1].res = "ok"
       ELSE j > 1 /\ lg[j - 1] = Request(lg[j].op, lg[j].arg, "sent")

\* A failed request is the last thing the call did, and the call rejected.
FailureEndsCall(s) ==
    \A j \in 1..Len(s.log) :
       s.log[j].res = "fail" => (j = Len(s.log) /\ s.pc = "rejected")

\* C12: uploadRepos sends the uploads of its input files one at a time and in
\* input order, each only after the one before it has resolved; a failed
\* upload is the last request of the call, which rejects, and the store then
\* holds exactly the files before the failing one; a call that resolves has
\* uploaded every file.
C12_UploadsInOrderAbortOnFailure ==
    repo.op = "upload" =>
       LET sent == Sent(repo.log)
           n == Len(sent)
       IN  /\ n <= Len(repo.files)
           /\ \A k \in 1..n : sent[k].op = "upload" /\ sent[k].arg.file = repo.files[k]
           /\ OneAtATime(repo.log)
           /\ FailureEndsCall(repo)
           /\ repo.pc = "rejected" =>
                 /\ n >= 1
                 /\ repo.log[Len(repo.log)].res = "fail"
                 /\ [k \in 1..Len(store.uploaded) |-> store.uploaded[k].file]
                       = SubSeq(repo.files, 1, n - 1)
           /\ repo.pc = "resolved" =>
                 [k \in 1..Len(store.uploaded) |-> store.uploaded[k].file]
                    = repo.files

\* The upload of the second of three files has failed: the call has rejected,
\* the first file is in the store and the third was never sent.
C12_Witness ==
    /\ repo.op = "upload"
    /\ repo.pc = "rejected"
    /\ Len(repo.files) = 3
    /\ Len(Sent(repo.log)) = 2
    /\ Len(store.uploaded) = 1
    /\ store.uploaded[1].file = repo.files[1]

\* C13: getNewRepos fetches db.sqlite for the names listDBs returned, one at
\* a time and in that order; a call that resolves returns one { name, bytes }
\* pair per name, in that order; a failed request is the last request of the
\* call, which rejects and returns nothing, whatever it had collected.
C13_ManifestsInOrderAbortOnFailure ==
    repo.op = "get" =>
       LET fetches == SelectSeq(Sent(repo.log), LAMBDA e : e.op = "fetch")
           n == Len(fetches)
       IN  /\ n <= Len(repo.dbs)
           /\ \A k \in 1..n : fetches[k].arg = repo.dbs[k]
           /\ OneAtATime(repo.log)
           /\ FailureEndsCall(repo)
           /\ repo.returned <=> repo.pc = "resolved"
           /\ repo.pc = "resolved" =>
                 repo.result = [k \in 1..Len(store.dbs) |->
                                   [name |-> store.dbs[k],
                                    bytes |-> SqliteBytes(store.dbs[k])]]
           /\ repo.pc = "rejected" =>
                 /\ repo.log[Len(repo.log)].res = "fail"
                 /\ repo.result = <<>>

\* The store lists three databases and the fetch for the second has failed:
\* the call has rejected with one pair collected and nothing returned, and
\* the third database was never fetched.
C13_Witness ==
    /\ repo.op = "get"
    /\ repo.pc = "rejected"
    /\ Len(store.dbs) = 3
    /\ repo.dbs = store.dbs
    /\ Len(repo.arrs) = 1
    /\ Len(Sent(repo.log)) = 3
    /\ ~repo.returned

\* ------------------------------------- properties: concurrent asset syncs
\* In its current call caller p found /{d}/assets/{n} absent, fetched the
\* bytes and wrote them.
FetchedAndWrote(p, d, n) ==
    /\ CountOf(proc[p].log, {"stat"}, d, n) = 1
    /\ \E ev \in Range(proc[p].log) :
          ev = Event("stat", d, n, "ENOENT")
    /\ Event("fetch", d, n, "ok") \in Range(proc[p].log)
    /\ Event("write", d, n, "ok") \in Range(proc[p].log)

\* Both callers did so for the same asset: their calls overlapped, the
\* second stat came before the first write.
DoubleFetch(d, n) == \A p \in Procs : FetchedAndWrote(p, d, n)

\* C14: two callers are not excluded from syncing one database at once; when
\* both have found the same asset absent, fetched it and written it, the
\* local path holds a file with the bytes of the remote entry.
C14_DoubleFetchLeavesRemoteBytes ==
    \A d \in DBs : \A k \in 1..Len(remote[d]) :
       DoubleFetch(d, remote[d][k].name)
          => fs[AssetPath(d, remote[d][k].name)]
                = [type |-> "file", data |-> RemoteBytes(d, remote[d][k])]

\* Both callers have finished a call in which each found /d1/assets/a absent,
\* fetched it and wrote it: the asset was requested twice and the file holds
\* the remote bytes.
C14_Witness ==
    /\ DoubleFetch("d1", "a")
    /\ \A p \in Procs : proc[p].pc = "done" /\ tally.calls[p] = 1
    /\ remote["d1"][1] = DirEntry("file", "a")
    /\ tally.fetched[AssetPath("d1", "a")] = 2
    /\ fs[AssetPath("d1", "a")] = [type |-> "file", data |-> <<"bytes", "d1", "a">>]

TimerReloads(lg) ==
    Len(SelectSeq(lg, LAMBDA e : e.kind = "reload" /\ e.by = "timer"))

\* The reloads scheduled so far by the patched back, forward and go.
ScheduledReloads == TimerReloads(navLog) + timers

\* C16: while the guard is enabled, a call of history.back, history.forward
\* or history.go invokes the operation captured at enable, which is the one
\* bound before, with the arguments of the call, performs no navigation
\* itself and schedules one reload; a reload callback runs only when one is
\* scheduled, and reloads are scheduled by these calls only; under a fair
\* event loop every scheduled reload is eventually performed.
C16_TraverseThenReload ==
    /\ [][/\ (GuardEnabled /\ last'.op \in {"back", "forward", "go"}) =>
               /\ last'.calls = <<HistCall(bindings0[last'.op], last'.op, last'.arg)>>
               /\ saved.orig[last'.op] = bindings0[last'.op]
               /\ navLog' = navLog
               /\ timers' = timers + 1
          /\ TimerReloads(navLog') # TimerReloads(navLog) =>
               /\ timers > 0
               /\ timers' = timers - 1
               /\ navLog' = Append(navLog, NavReload("timer"))
          /\ timers' > timers =>
               /\ last'.op \in {"back", "forward", "go"}
               /\ Len(last'.calls) = 1]_vars
    /\ \A n \in 1..MaxNavs :
          (ScheduledReloads >= n) ~> (TimerReloads(navLog) >= n)

\* While enabled the page called history.go(-1) and then history.back(); both
\* reloads have been performed, in later ticks.
C16_Witness ==
    /\ GuardEnabled
    /\ last.op = "timer"
    /\ timers = 0
    /\ navLog = <<NavReload("timer"), NavReload("timer")>>

\* ------------------------------------ properties: asset mirror, continued
\* Where in a call an operation belongs: the index of its database in the
\* input, the index of its entry in the listing (0 before the asset loop, one
\* past the listing for the tree dump) and its place within the entry.
DbIndex(s, d) == CHOOSE i \in 1..Len(s.dbs) : s.dbs[i] = d
EntryIndex(d, n) == CHOOSE k \in 1..Len(remote[d]) : remote[d][k].name = n
Place(s, e) ==
    <<DbIndex(s, e.db),
      IF e.op = "tree" THEN Len(remote[e.db]) + 1
      ELSE IF e.name = "" THEN 0 ELSE EntryIndex(e.db, e.name),
      IF e.op \in {"list", "tree"} THEN 0
      ELSE IF e.op = "stat" THEN 1
      ELSE IF e.op \in {"mkdir", "fetch"} THEN 2
      ELSE 3>>
Before(a, b) ==
    \/ a[1] < b[1]
    \/ a[1] = b[1] /\ a[2] < b[2]
    \/ a[1] = b[1] /\ a[2] = b[2] /\ a[3] < b[3]

\* The operation a call is awaiting, if any.
Pending(s) ==
    IF s.pc = "listWait" THEN <<s.di, 0, 0>>
    ELSE IF s.pc = "statDb" THEN <<s.di, 0, 1>>
    ELSE IF s.pc = "mkdir" THEN <<s.di, 0, 2>>
    ELSE IF s.pc = "statAsset" THEN <<s.di, s.ai, 1>>
    ELSE IF s.pc = "fetchWait" THEN <<s.di, s.ai, 2>>
    ELSE IF s.pc = "write" THEN <<s.di, s.ai, 3>>
    ELSE IF s.pc = "printTree" THEN <<s.di, Len(s.assetFiles) + 1, 0>>
    ELSE <<Len(s.dbs) + 1, 0, 0>>

\* C17: within one call the operations settle in the order of the input
\* databases, within a database in the order of its listing and within an
\* entry as stat, fetch, write: every settled operation of a later entry or
\* a later database follows every one of an earlier entry or database, and
\* the one operation the call is awaiting comes after all that have settled.
C17_OneOperationAtATimeInOrder ==
    \A p \in Procs :
        LET s == proc[p]
            lg == s.log
        IN  /\ \A i \in 1..Len(lg) : \A j \in (i + 1)..Len(lg) :
                  Before(Place(s, lg[i]), Place(s, lg[j]))
            /\ \A i \in 1..Len(lg) : Before(Place(s, lg[i]), Pending(s))

\* A call for d2 and then d1 is awaiting the fetch of the second entry of d1:
\* the sync of d2 and the first entry of d1 have settled before.
C17_Witness ==
    LET s == proc[1] IN
    /\ s.dbs = <<"d2", "d1">>
    /\ s.pc = "fetchWait"
    /\ s.di = 2
    /\ s.ai = 2
    /\ Event("tree", "d2", "", "ok") \in Range(s.log)
    /\ Event("write", "d1", "a", "ok") \in Range(s.log)

\* C18: for a remote listing entry of type dir, no fetch is requested and no
\* writeFile is called for /{db}/assets/{name}.
C18_DirEntriesNotMirrored ==
    \A d \in DBs : \A k \in 1..Len(remote[d]) :
       remote[d][k].type = "dir" =>
          /\ tally.fetched[AssetPath(d, remote[d][k].name)] = 0
          /\ \A p \in Procs :
                CountOf(proc[p].log, {"fetch", "write"}, d, remote[d][k].name) = 0

\* -------------------------- properties: navigation guard, queue and handlers
\* C19: whenever the guard is not enabled, the queue of blocked registrations
\* is empty.
C19_QueueEmptyWhileDisabled == ~GuardEnabled => saved.listeners = <<>>

\* The guard's own handlers on the real target, in the order of their
\* registration.
GuardHandlers ==
    SelectSeq(installed,
              LAMBDA r : r.listener.kind \in {"onHashAttempt", "onPopState"})

\* C20: while the guard is enabled the real target holds the capturing
\* hashchange handler and the capturing popstate handler of the current
\* enable, once each, and no guard handler of an earlier enable; while it is
\* not enabled the real target holds no guard handler.
C20_GuardHandlersExactlyWhileEnabled ==
    IF GuardEnabled
    THEN GuardHandlers =
            <<Reg("hashchange", Listener("onHashAttempt", epoch), TRUE),
              Reg("popstate", Listener("onPopState", epoch), TRUE)>>
    ELSE GuardHandlers = <<>>

\* The guard is in its second enable and a listener of the page is on the
\* real target: of the guard's handlers only those of the second enable are
\* installed.
C20_Witness ==
    /\ GuardEnabled
    /\ epoch = 2
    /\ Len(GuardHandlers) = 2
    /\ \A r \in Range(GuardHandlers) : r.listener.n = 2
    /\ Len(installed) > 2

====
